---- MODULE Spec2Model ----
(***************************************************************************)
(* State-machine model of the underworld-cloud-droplet repository: the     *)
(* example notebooks (each code cell is an action of the Jupyter kernel,   *)
(* each pass of a time-stepping loop is a solve action followed by an      *)
(* update action) and the GitHub-actions deployment described by the       *)
(* README.                                                                 *)
(*                                                                         *)
(* Floating-point quantities are fixed-point integers; the unit is stated  *)
(* where the quantity is introduced.  Values returned by the Underworld    *)
(* library (time steps, RMS velocities, Nusselt numbers, tracer heights)   *)
(* are inputs drawn from small sets.                                       *)
(***************************************************************************)
EXTENDS Integers, Sequences, FiniteSets, TLC

VARIABLES
    nb,          \* the notebook the kernel is running ("none" before one is opened)
    pc,          \* the next cell (or loop position) of that notebook
    err,         \* the exception that stopped the notebook, "none" otherwise
    time,        \* python global `time` of the time-stepping loops
    step,        \* python global `step` of the time-stepping loops
    solves,      \* number of solver.solve() calls made so far
    integrates,  \* number of advDiff/advector.integrate() calls made so far
    vel,         \* velocityField: the index of the solve that produced it (0: initial zeros)
    vrms,        \* the RMS velocity of the current velocityField
    checkedVel,  \* the velocity field examined by the test cell (-1: not examined)
    tcT,         \* thermal convection: temperatureField.data, node -> 1e-6 units
    tcTempBC,    \* thermal convection: tempBC.indexSetsPerDof
    tcVelBC,     \* thermal convection: velBC.indexSetsPerDof
    longtest,          \* Rayleigh-Taylor: the longtest flag of the parameter cell
    envLongtest,       \* Rayleigh-Taylor: "UW_LONGTEST" in os.environ
    model_end_time,    \* Rayleigh-Taylor: model_end_time
    res,               \* Rayleigh-Taylor: res
    stokes_inner_tol,  \* Rayleigh-Taylor: 1/stokes_inner_tol
    stokesBC,          \* Rayleigh-Taylor: stokesBC.indexSetsPerDof
    demoChecked,       \* Rayleigh-Taylor: the demo RMS check has been applied
    case,          \* Blankenbach: case
    LoadFromFile,  \* Blankenbach: LoadFromFile
    Ra,            \* Blankenbach: Ra
    eta0,          \* Blankenbach: eta0, as its decimal exponent
    loadedFile,    \* Blankenbach: the data file temperatureField64 was loaded from
    printed,       \* Blankenbach: the message the load cell printed
    step_end,      \* Blankenbach: step_end
    nu,            \* Blankenbach: nu, in 1e-3 units
    nuLast,        \* Blankenbach: nuLast, in 1e-3 units
    mpiSize,       \* Blankenbach: uw.mpi.size of the run
    rankPc,        \* Blankenbach: rank -> index of its next post-analysis cell
    rankDefs,      \* Blankenbach: rank -> the post-analysis names defined on it
    rankErr,       \* Blankenbach: rank -> the exception that stopped it, or "none"
    h0,           \* uplift: h0, in 1e-6 model lengths
    h1,           \* uplift: h1, in 1e-6 model lengths
    diffH,        \* uplift: diffH, in 1e-6 model lengths
    dt,           \* uplift: dt
    steps,        \* uplift: steps
    repoConfig,     \* deployment: the configuration at the head of the repository
    pushes,         \* deployment: number of configuration changes pushed
    runs,           \* deployment: the triggered update runs, each with the configuration of its push
    serverContent,  \* deployment: the configuration the content of the server was built from
    serverUp,       \* health check: TRUE while the server is running
    checkLog        \* health check: the health checks run so far, oldest first

kernelVars == <<nb, pc, err>>
loopVars   == <<time, step, solves, integrates, vel, vrms, checkedVel>>
tcVars     == <<tcT, tcTempBC, tcVelBC>>
rtVars     == <<longtest, envLongtest, model_end_time, res, stokes_inner_tol,
                stokesBC, demoChecked>>
bbVars     == <<case, LoadFromFile, Ra, eta0, loadedFile, printed, step_end,
                nu, nuLast, mpiSize, rankPc, rankDefs, rankErr>>
upVars     == <<h0, h1, diffH, dt, steps>>
nbVars     == <<kernelVars, loopVars, tcVars, rtVars, bbVars, upVars>>
hcVars     == <<serverUp, checkLog>>
dpVars     == <<repoConfig, pushes, runs, serverContent, hcVars>>
vars       == <<nbVars, dpVars>>

Abs(x) == IF x < 0 THEN -x ELSE x

Max(a, b) == IF a >= b THEN a ELSE b

Min(a, b) == IF a <= b THEN a ELSE b

(***************************************************************************)
(* numpy.isclose(a, b, rtol, atol): |a - b| <= atol + rtol * |b|.          *)
(* rtolInv is 1/rtol and atolScaled is atol/rtol in the unit of a and b,   *)
(* so that the test is |a - b| * rtolInv <= atolScaled + |b|.              *)
(***************************************************************************)
IsClose(a, b, rtolInv, atolScaled) ==
    Abs(a - b) <= (atolScaled + Abs(b)) \div rtolInv

\* numpy's default rtol = 1e-5, as its inverse
DefaultRtolInv == 100000

(***************************************************************************)
(* uw.mesh.FeMesh_Cartesian with elementRes = (nx, ny): (nx+1)*(ny+1)      *)
(* nodes, node i + j*(nx+1) at column i and row j, and its specialSets.    *)
(***************************************************************************)
MeshNodes(nx, ny) == 0 .. ((nx + 1) * (ny + 1) - 1)

NodeI(n, nx) == n % (nx + 1)

NodeJ(n, nx) == n \div (nx + 1)

MinI_VertexSet(nx, ny) == { n \in MeshNodes(nx, ny) : NodeI(n, nx) = 0 }

MaxI_VertexSet(nx, ny) == { n \in MeshNodes(nx, ny) : NodeI(n, nx) = nx }

MinJ_VertexSet(nx, ny) == { n \in MeshNodes(nx, ny) : NodeJ(n, nx) = 0 }

MaxJ_VertexSet(nx, ny) == { n \in MeshNodes(nx, ny) : NodeJ(n, nx) = ny }

\* the time steps get_max_dt() may return
DtValues == {1, 2}

(***************************************************************************)
(* The index page: the notebooks the hub serves.                           *)
(***************************************************************************)
Notebooks == {"TC", "RT", "BB", "UP"}

OpenNotebook(n) ==
    /\ nb = "none"
    /\ nb' = n
    /\ pc' = "params"
    /\ UNCHANGED <<err, loopVars, tcVars, rtVars, bbVars, upVars, dpVars>>

(***************************************************************************)
(* Thermal convection notebook.                                            *)
(***************************************************************************)
\* res = 16: the mesh has elementRes (2*res, res)
tc_res == 16

\* boxHeight = 1.0 and boxLength = 2.0, in box heights
tc_boxHeight == 1

tc_boxLength == 2

\* tempMin = 0.0 and tempMax = 1.0 in 1e-6 units
tc_tempMin == 0

tc_tempMax == 1000000

\* pertStrength = 0.2 in 1e-3 units
tc_pertStrength == 200

tc_steps_end == 20

tc_nx == 2 * tc_res

tc_ny == tc_res

tc_Nodes == MeshNodes(tc_nx, tc_ny)

\* 1000 * sin(k*pi/16) for k = 0..8, rounded
SinQuarter == <<0, 195, 383, 556, 707, 831, 924, 981, 1000>>

\* 1000 * sin(k*pi/16), k >= 0
SinPi16(k) ==
    LET m == k % 32
        h == m % 16
        q == IF h <= 8 THEN SinQuarter[h + 1] ELSE SinQuarter[16 - h + 1]
    IN  IF m < 16 THEN q ELSE -q

\* 1000 * cos(k*pi/16), k >= 0
CosPi16(k) == SinPi16(k + 8)

\* max(tempMin, min(tempMax, t))
tc_Clamp(t) == Max(tc_tempMin, Min(tc_tempMax, t))

\* the temperature the perturbation cell gives node n (coord = (i/res, j/res))
tc_PerturbedTemp(n) ==
    LET i == NodeI(n, tc_nx)
        j == NodeJ(n, tc_nx)
        \* math.cos(pi*coord[0]) * math.sin(pi*coord[1]) in 1e-3 units
        pertCoeff == (CosPi16(i) * SinPi16(j)) \div 1000
        deltaTemp == tc_tempMax - tc_tempMin
    IN  tc_Clamp(tc_tempMin
                 + (deltaTemp * (tc_boxHeight * tc_res - j)) \div tc_res
                 + tc_pertStrength * pertCoeff)

tc_bottomWall == MinJ_VertexSet(tc_nx, tc_ny)

tc_topWall == MaxJ_VertexSet(tc_nx, tc_ny)

tc_leftWall == MinI_VertexSet(tc_nx, tc_ny)

tc_rightWall == MaxI_VertexSet(tc_nx, tc_ny)

tc_iWalls == tc_leftWall \cup tc_rightWall

tc_jWalls == tc_bottomWall \cup tc_topWall

\* parameter, mesh and material cells: the fields are created and zeroed
TC_Setup ==
    /\ nb = "TC" /\ pc = "params" /\ err = "none"
    /\ tcT' = [n \in tc_Nodes |-> 0]
    /\ vel' = 0
    /\ pc' = "perturb"
    /\ UNCHANGED <<nb, err, time, step, solves, integrates, vrms, checkedVel,
                   tcTempBC, tcVelBC, rtVars, bbVars, upVars, dpVars>>

\* the sinusoidal perturbation cell
TC_Perturb ==
    /\ nb = "TC" /\ pc = "perturb" /\ err = "none"
    /\ tcT' = [n \in tc_Nodes |-> tc_PerturbedTemp(n)]
    /\ pc' = "walls"
    /\ UNCHANGED <<nb, err, loopVars, tcTempBC, tcVelBC, rtVars, bbVars, upVars, dpVars>>

\* variant: the wall temperatures written to the opposite walls
tc_WallsSwapped(T) ==
    [n \in tc_Nodes |->
        IF n \in tc_topWall THEN tc_tempMax
        ELSE IF n \in tc_bottomWall THEN tc_tempMin
        ELSE T[n]]

\* the field after the wall temperature loops: tempMax on the bottom wall,
\* then tempMin on the top wall
tc_SetWalls(T) ==
    [n \in tc_Nodes |->
        IF n \in tc_topWall THEN tc_tempMin
        ELSE IF n \in tc_bottomWall THEN tc_tempMax
        ELSE T[n]]

TC_Walls ==
    /\ nb = "TC" /\ pc = "walls" /\ err = "none"
    /\ tcT' = tc_SetWalls(tcT)
    /\ pc' = "bcs"
    /\ UNCHANGED <<nb, err, loopVars, tcTempBC, tcVelBC, rtVars, bbVars, upVars, dpVars>>

\* velBC and tempBC
TC_BCs ==
    /\ nb = "TC" /\ pc = "bcs" /\ err = "none"
    /\ tcVelBC' = <<tc_iWalls, tc_jWalls>>
    /\ tcTempBC' = <<tc_jWalls>>
    /\ pc' = "loopinit"
    /\ UNCHANGED <<nb, err, loopVars, tcT, rtVars, bbVars, upVars, dpVars>>

\* time = 0.; step = 0; steps_end = 20
TC_LoopInit ==
    /\ nb = "TC" /\ pc = "loopinit" /\ err = "none"
    /\ time' = 0
    /\ step' = 0
    /\ pc' = "while"
    /\ UNCHANGED <<nb, err, solves, integrates, vel, vrms, checkedVel, tcVars, rtVars, bbVars, upVars, dpVars>>

\* the RMS velocities (1e-4 units) a solve may produce: the expected value,
\* the last close one, the first one that is not close
tc_VrmsValues == {870754, 870762, 870763}

\* variant: the loop condition with <= (one pass more)
tc_LoopCondLe == step <= tc_steps_end

\* while step < steps_end
tc_LoopCond == step < tc_steps_end

\* solver.solve(): a new velocity field
TC_Solve ==
    /\ nb = "TC" /\ pc = "while" /\ err = "none"
    /\ tc_LoopCond
    /\ solves' = solves + 1
    /\ vel' = solves + 1
    /\ \E v \in tc_VrmsValues : vrms' = v
    /\ pc' = "update"
    /\ UNCHANGED <<nb, err, time, step, integrates, checkedVel, tcVars, rtVars, bbVars, upVars, dpVars>>

\* the temperatures advDiff.integrate() may leave on the nodes that carry no
\* Dirichlet condition
tc_AdvectedTemps == {tc_tempMin, 500000, tc_tempMax}

\* time, step = update(): advDiff.integrate(dt); return time+dt, step+1
TC_Update ==
    /\ nb = "TC" /\ pc = "update" /\ err = "none"
    /\ \E d \in DtValues : time' = time + d
    /\ \E t \in tc_AdvectedTemps :
          tcT' = [n \in tc_Nodes |-> IF n \in tcTempBC[1] THEN tcT[n] ELSE t]
    /\ integrates' = integrates + 1
    /\ step' = step + 1
    /\ pc' = "while"
    /\ UNCHANGED <<nb, err, solves, vel, vrms, checkedVel, tcTempBC, tcVelBC, rtVars, bbVars, upVars, dpVars>>

\* the loop ends; the plot cell changes nothing
TC_LoopExit ==
    /\ nb = "TC" /\ pc = "while" /\ err = "none"
    /\ ~tc_LoopCond
    /\ pc' = "check"
    /\ UNCHANGED <<nb, err, loopVars, tcVars, rtVars, bbVars, upVars, dpVars>>

\* the test cell: np.isclose(stokes.velocity_rms(), 8.70754e+01)
TC_Check ==
    /\ nb = "TC" /\ pc = "check" /\ err = "none"
    /\ checkedVel' = vel
    /\ err' = IF IsClose(vrms, 870754, DefaultRtolInv, 10)
              THEN "none" ELSE "RuntimeError"
    /\ pc' = "done"
    /\ UNCHANGED <<nb, time, step, solves, integrates, vel, vrms, tcVars, rtVars, bbVars, upVars, dpVars>>

TC_Next ==
    \/ TC_Setup
    \/ TC_Perturb
    \/ TC_Walls
    \/ TC_BCs
    \/ TC_LoopInit
    \/ TC_Solve
    \/ TC_Update
    \/ TC_LoopExit
    \/ TC_Check

(***************************************************************************)
(* Rayleigh-Taylor notebook.                                               *)
(***************************************************************************)
\* the bound on the passes of the Rayleigh-Taylor and Blankenbach loops
MaxLoopSteps == 4

\* the time steps advector.get_max_dt() may return
rt_DtValues == {1, 2, 400}

\* the RMS velocities (1e-12 units) a solve may produce: the expected value,
\* the last close one, the first one that is not close
rt_VrmsValues == {183340220, 183352053, 183352054}

\* the parameter cell: the demo settings, replaced by the benchmark settings
\* if "UW_LONGTEST" in os.environ or longtest
RT_Params(lt, env) ==
    /\ nb = "RT" /\ pc = "params" /\ err = "none"
    /\ longtest' = lt
    /\ envLongtest' = env
    /\ IF env \/ lt
       THEN /\ model_end_time' = 800
            /\ res' = 128
            /\ stokes_inner_tol' = 10000000
       ELSE /\ model_end_time' = 3
            /\ res' = 64
            /\ stokes_inner_tol' = 1000000
    /\ pc' = "mesh"
    /\ UNCHANGED <<nb, err, loopVars, tcVars, bbVars, upVars, dpVars, stokesBC, demoChecked>>

Left_VertexSet(r) == MinI_VertexSet(r, r)

Right_VertexSet(r) == MaxI_VertexSet(r, r)

Bottom_VertexSet(r) == MinJ_VertexSet(r, r)

Top_VertexSet(r) == MaxJ_VertexSet(r, r)

rt_iWalls(r) == Left_VertexSet(r) \cup Right_VertexSet(r)

rt_jWalls(r) == Bottom_VertexSet(r) \cup Top_VertexSet(r)

rt_allWalls(r) == rt_iWalls(r) \cup rt_jWalls(r)

\* variant: v_x fixed on the vertical walls only (free slip on every wall)
rt_BC_iWalls(r) == <<rt_iWalls(r), rt_jWalls(r)>>

\* indexSetsPerDof = (allWalls, jWalls)
rt_BC(r) == <<rt_allWalls(r), rt_jWalls(r)>>

\* the mesh, swarm, material and boundary condition cells
RT_MeshBC ==
    /\ nb = "RT" /\ pc = "mesh" /\ err = "none"
    /\ stokesBC' = rt_BC(res)
    /\ vel' = 0
    /\ pc' = "loopinit"
    /\ UNCHANGED <<nb, err, time, step, solves, integrates, vrms, checkedVel,
                   tcVars, bbVars, upVars, dpVars, longtest, envLongtest, model_end_time, res,
                   stokes_inner_tol, demoChecked>>

\* time = 0.; step = 0
RT_LoopInit ==
    /\ nb = "RT" /\ pc = "loopinit" /\ err = "none"
    /\ time' = 0
    /\ step' = 0
    /\ pc' = "while"
    /\ UNCHANGED <<nb, err, solves, integrates, vel, vrms, checkedVel, tcVars, bbVars, upVars, dpVars, rtVars>>

\* while time < model_end_time: solver.solve(); vrms = stokes.velocity_rms()
RT_Solve ==
    /\ nb = "RT" /\ pc = "while" /\ err = "none"
    /\ time < model_end_time
    /\ step < MaxLoopSteps
    /\ solves' = solves + 1
    /\ vel' = solves + 1
    /\ \E v \in rt_VrmsValues : vrms' = v
    /\ pc' = "update"
    /\ UNCHANGED <<nb, err, time, step, integrates, checkedVel, tcVars, bbVars, upVars, dpVars, rtVars>>

\* time, step = update(): advector.integrate(dt); return time+dt, step+1
RT_Update ==
    /\ nb = "RT" /\ pc = "update" /\ err = "none"
    /\ \E d \in rt_DtValues : time' = time + d
    /\ integrates' = integrates + 1
    /\ step' = step + 1
    /\ pc' = "while"
    /\ UNCHANGED <<nb, err, solves, vel, vrms, checkedVel, tcVars, bbVars, upVars, dpVars, rtVars>>

RT_LoopExit ==
    /\ nb = "RT" /\ pc = "while" /\ err = "none"
    /\ ~(time < model_end_time)
    /\ pc' = "check"
    /\ UNCHANGED <<nb, err, loopVars, tcVars, bbVars, upVars, dpVars, rtVars>>

\* the test cell: if longtest == False, the demo RMS velocity is checked
RT_Check ==
    /\ nb = "RT" /\ pc = "check" /\ err = "none"
    /\ IF longtest = FALSE
       THEN /\ demoChecked' = TRUE
            /\ checkedVel' = vel
            /\ err' = IF IsClose(vrms, 183340220, DefaultRtolInv, 1000000000)
                      THEN "none" ELSE "RuntimeError"
       ELSE UNCHANGED <<demoChecked, checkedVel, err>>
    /\ pc' = "done"
    /\ UNCHANGED <<nb, time, step, solves, integrates, vel, vrms, tcVars, bbVars, upVars, dpVars,
                   longtest, envLongtest, model_end_time, res, stokes_inner_tol,
                   stokesBC>>

RT_Next ==
    \/ \E lt \in BOOLEAN, env \in BOOLEAN : RT_Params(lt, env)
    \/ RT_MeshBC
    \/ RT_LoopInit
    \/ RT_Solve
    \/ RT_Update
    \/ RT_LoopExit
    \/ RT_Check

(***************************************************************************)
(* Blankenbach benchmark notebook.                                         *)
(***************************************************************************)
\* the largest uw.mpi.size of a run
MaxRanks == 2

\* the values given to `case`
bb_Cases == {"a", "b", "c"}

\* the Nusselt numbers (1e-3 units) the loop may compute
bb_NuValues == {4884, 4900}

\* the RMS velocities (1e-3 units) the loop may compute
bb_VrmsValues == {42865, 43500}

\* Ra of the case selection cell
bb_Ra(c) == IF c = "a" THEN 10000 ELSE IF c = "b" THEN 100000 ELSE 1000000

\* eta0 of the case selection cell, as its decimal exponent
bb_eta0(c) == IF c = "a" THEN 23 ELSE IF c = "b" THEN 22 ELSE 21

\* the case selection cell, the LoadFromFile cell and the size of the run
BB_Params(c, lff, size) ==
    /\ nb = "BB" /\ pc = "params" /\ err = "none"
    /\ case' = c
    /\ Ra' = bb_Ra(c)
    /\ eta0' = bb_eta0(c)
    /\ LoadFromFile' = lff
    /\ mpiSize' = size
    /\ vel' = 0
    /\ pc' = "load"
    /\ UNCHANGED <<nb, err, time, step, solves, integrates, vrms, checkedVel,
                   tcVars, rtVars, upVars, dpVars, loadedFile, printed, step_end, nu, nuLast,
                   rankPc, rankDefs, rankErr>>

\* variant: the files of cases a and b exchanged
bb_FileForSwapped(c) ==
    IF c = "b" THEN "tempfield_inp_64_Ra1e4.h5"
    ELSE IF c = "a" THEN "tempfield_inp_64_Ra1e5.h5"
    ELSE "tempfield_inp_64_Ra1e6.h5"

\* the data file the load cell reads
bb_FileFor(c) ==
    IF c = "a" THEN "tempfield_inp_64_Ra1e4.h5"
    ELSE IF c = "b" THEN "tempfield_inp_64_Ra1e5.h5"
    ELSE "tempfield_inp_64_Ra1e6.h5"

\* the message the load cell prints
bb_MessageFor(c) ==
    IF c = "a" THEN "Loading 64*64 for Ra = 1e4"
    ELSE IF c = "b" THEN "Loading 64*64 for Ra = 1e5"
    ELSE "Loading 64*64 for Ra = 1e6"

\* the load cell (if LoadFromFile == True), the perturbation cell (if
\* LoadFromFile == False), the boundary condition and system cells, and the
\* first evaluation of nu and vrms
BB_InitialTemperature ==
    /\ nb = "BB" /\ pc = "load" /\ err = "none"
    /\ IF LoadFromFile = TRUE
       THEN /\ loadedFile' = bb_FileFor(case)
            /\ printed' = bb_MessageFor(case)
       ELSE UNCHANGED <<loadedFile, printed>>
    /\ \E n \in bb_NuValues : nu' = n
    /\ vrms' = 0
    /\ pc' = "loopinit"
    /\ UNCHANGED <<nb, err, time, step, solves, integrates, vel, checkedVel,
                   tcVars, rtVars, upVars, dpVars, case, LoadFromFile, Ra, eta0, step_end,
                   nuLast, mpiSize, rankPc, rankDefs, rankErr>>

\* time = 0.; step = 0; step_end = 1 or 5000; nuLast = -1.0
BB_LoopInit ==
    /\ nb = "BB" /\ pc = "loopinit" /\ err = "none"
    /\ time' = 0
    /\ step' = 0
    /\ step_end' = IF LoadFromFile = TRUE THEN 1 ELSE 5000
    /\ nuLast' = -1000
    /\ pc' = "while"
    /\ UNCHANGED <<nb, err, solves, integrates, vel, vrms, checkedVel,
                   tcVars, rtVars, upVars, dpVars, case, LoadFromFile, Ra, eta0, loadedFile,
                   printed, nu, mpiSize, rankPc, rankDefs, rankErr>>

\* 1/epsilon, epsilon = 1.e-8
bb_epsilonInv == 100000000

\* abs((nu - nuLast)/nu) < epsilon, for nu # 0
bb_Converged(n, last) == Abs(n - last) <= (Abs(n) - 1) \div bb_epsilonInv

\* one pass of `while step<=step_end` up to `nuLast = nu`: the solve, the
\* statistics, and the break on convergence
BB_Solve ==
    /\ nb = "BB" /\ pc = "while" /\ err = "none"
    /\ step <= step_end
    /\ step < MaxLoopSteps
    /\ solves' = solves + 1
    /\ vel' = solves + 1
    /\ \E v \in bb_VrmsValues, n \in bb_NuValues :
          /\ vrms' = v
          /\ nu' = n
          /\ IF bb_Converged(n, nuLast)
             THEN /\ pc' = "check"
                  /\ nuLast' = nuLast
             ELSE /\ pc' = "update"
                  /\ nuLast' = n
    /\ UNCHANGED <<nb, err, time, step, integrates, checkedVel, tcVars, rtVars, upVars, dpVars,
                   case, LoadFromFile, Ra, eta0, loadedFile, printed, step_end,
                   mpiSize, rankPc, rankDefs, rankErr>>

\* time, step = update(): advDiff.integrate(dt); return time+dt, step+1
BB_Update ==
    /\ nb = "BB" /\ pc = "update" /\ err = "none"
    /\ \E d \in DtValues : time' = time + d
    /\ integrates' = integrates + 1
    /\ step' = step + 1
    /\ pc' = "while"
    /\ UNCHANGED <<nb, err, solves, vel, vrms, checkedVel, tcVars, rtVars, upVars, dpVars, bbVars>>

BB_LoopExit ==
    /\ nb = "BB" /\ pc = "while" /\ err = "none"
    /\ ~(step <= step_end)
    /\ pc' = "check"
    /\ UNCHANGED <<nb, err, loopVars, tcVars, rtVars, upVars, dpVars, bbVars>>

Ranks == 0 .. (mpiSize - 1)

\* the test cell after the loop: for case "a", nu and vrms are compared with
\* 4.884 and 42.865, rtol = 1e-2; then every rank starts the post analysis
BB_Check ==
    /\ nb = "BB" /\ pc = "check" /\ err = "none"
    /\ checkedVel' = IF case = "a" THEN vel ELSE checkedVel
    /\ err' = IF case = "a" /\ ~(IsClose(nu, 4884, 100, 0) /\ IsClose(vrms, 42865, 100, 0))
              THEN "RuntimeError" ELSE "none"
    /\ rankPc' = [r \in Ranks |-> 1]
    /\ rankDefs' = [r \in Ranks |-> {}]
    /\ rankErr' = [r \in Ranks |-> "none"]
    /\ pc' = "post"
    /\ UNCHANGED <<nb, time, step, solves, integrates, vel, vrms, tcVars, rtVars, upVars, dpVars,
                   case, LoadFromFile, Ra, eta0, loadedFile, printed, step_end,
                   nu, nuLast, mpiSize>>

(***************************************************************************)
(* The post-analysis cells, in order.  rank0: the cell's body is under     *)
(* `if(uw.mpi.rank==0)`; caseA: it is under `if case == "a"`; reads: the   *)
(* post-analysis names its body reads; defines: those it assigns; check:   *)
(* it may raise RuntimeError.                                              *)
(***************************************************************************)
PostCell(r0, ca, rd, df, ck) ==
    [rank0 |-> r0, caseA |-> ca, reads |-> rd, defines |-> df, check |-> ck]

\* `if case == "a"`: np.isclose(q1, 8.020, rtol=1.e-2), np.isclose(q2, 0.589, rtol=1.e-2)
bb_qCheck == PostCell(FALSE, TRUE, {"q1", "q2"}, {}, TRUE)

\* `if case == "a"`: np.isclose(e1, 2254.02, rtol=1.e-2), np.isclose(e2, -2903.23, rtol=1.e-2)
bb_eCheck == PostCell(FALSE, TRUE, {"e1", "e2"}, {}, TRUE)

bb_PostCells == <<
    \* mesh.save, temperatureField.save, pressureField.save, velocityField.save
    PostCell(FALSE, FALSE, {}, {}, FALSE),
    \* mesh0 and the fields loaded onto it
    PostCell(FALSE, FALSE, {},
             {"mesh0", "temperatureField0", "pressureField0", "velocityField0"}, FALSE),
    \* tempgradField, vertTGradField
    PostCell(TRUE, FALSE, {"temperatureField0"}, {"tempgradField", "vertTGradField"}, FALSE),
    \* q1 .. q4
    PostCell(TRUE, FALSE, {"vertTGradField"}, {"q1", "q2", "q3", "q4"}, FALSE),
    bb_qCheck,
    \* np.savetxt of timeVal, vrmsVal
    PostCell(TRUE, FALSE, {}, {}, FALSE),
    \* stress at the top of the box
    PostCell(TRUE, FALSE, {"velocityField0", "pressureField0", "mesh0"},
             {"stresstensorFn", "verticalStressFn", "stress_zz_top",
              "mean_sigma_zz_top", "sigma_zz_top"}, FALSE),
    \* dimensionalised stress and topography
    PostCell(TRUE, FALSE, {"sigma_zz_top"},
             {"grav", "height", "rho", "kappa", "dim_sigma_zz_top", "topography"}, FALSE),
    \* xIntercept
    PostCell(TRUE, FALSE, {"mesh0", "topography"}, {"xCoordFn", "x", "xIntercept"}, FALSE),
    \* e1, e2 and the summary file
    PostCell(TRUE, FALSE, {"topography", "xIntercept", "q1", "q2", "q3", "q4"},
             {"e1", "e2"}, FALSE),
    bb_eCheck >>

\* rank r runs its next post-analysis cell
BB_PostCell(r) ==
    /\ nb = "BB" /\ pc = "post" /\ err = "none"
    /\ r \in Ranks
    /\ rankErr[r] = "none"
    /\ rankPc[r] <= Len(bb_PostCells)
    /\ LET c == bb_PostCells[rankPc[r]]
           applies == (~c.rank0 \/ r = 0) /\ (~c.caseA \/ case = "a")
       IN  IF ~applies
           THEN /\ rankPc' = [rankPc EXCEPT ![r] = @ + 1]
                /\ UNCHANGED <<rankDefs, rankErr>>
           ELSE IF ~(c.reads \subseteq rankDefs[r])
           THEN /\ rankErr' = [rankErr EXCEPT ![r] = "NameError"]
                /\ UNCHANGED <<rankPc, rankDefs>>
           ELSE \E ok \in (IF c.check THEN BOOLEAN ELSE {TRUE}) :
                  IF ok
                  THEN /\ rankPc' = [rankPc EXCEPT ![r] = @ + 1]
                       /\ rankDefs' = [rankDefs EXCEPT ![r] = @ \cup c.defines]
                       /\ UNCHANGED rankErr
                  ELSE /\ rankErr' = [rankErr EXCEPT ![r] = "RuntimeError"]
                       /\ UNCHANGED <<rankPc, rankDefs>>
    /\ UNCHANGED <<kernelVars, loopVars, tcVars, rtVars, upVars, dpVars, case, LoadFromFile, Ra,
                   eta0, loadedFile, printed, step_end, nu, nuLast, mpiSize>>

BB_Next ==
    \/ \E c \in bb_Cases, lff \in BOOLEAN, size \in 1 .. MaxRanks : BB_Params(c, lff, size)
    \/ BB_InitialTemperature
    \/ BB_LoopInit
    \/ BB_Solve
    \/ BB_Update
    \/ BB_LoopExit
    \/ BB_Check
    \/ \E r \in 0 .. (MaxRanks - 1) : BB_PostCell(r)

(***************************************************************************)
(* Uplift notebook.  Model lengths are in 1e-6 units, so that one unit is  *)
(* 0.1 m once dimensionalised with KL_meters.                              *)
(***************************************************************************)
up_model_end_step == 3

\* KL_meters = 100e3 * u.meter
KL_meters == 100000

\* Ly = non_dimensionalise(60e3 * u.meter)
up_Ly == 600000

\* the vertical moves of the tracer (1e-6 model lengths) one advection may give
up_Deltas == {0, 2328, 2329, 2451, 2573, 2574}

\* the imports, scaling, mesh, swarm, tracer (at 0.6*Ly) and solver cells
UP_Setup ==
    /\ nb = "UP" /\ pc = "params" /\ err = "none"
    /\ vel' = 0
    /\ pc' = "loopinit"
    /\ UNCHANGED <<nb, err, time, step, solves, integrates, vrms, checkedVel,
                   tcVars, rtVars, bbVars, upVars, dpVars>>

\* h1 = fn_y_minmax.max_global(); dt = -1.; steps = 0
UP_LoopInit ==
    /\ nb = "UP" /\ pc = "loopinit" /\ err = "none"
    /\ h1' = (6 * up_Ly) \div 10
    /\ dt' = -1
    /\ steps' = 0
    /\ pc' = "while"
    /\ UNCHANGED <<nb, err, loopVars, tcVars, rtVars, bbVars, h0, diffH, dpVars>>

\* variant: solver.solve() made only on the first pass, with the time step
UP_SolveFirstPass ==
    /\ nb = "UP" /\ pc = "while" /\ err = "none"
    /\ steps < up_model_end_step
    /\ IF dt < 0
       THEN /\ solves' = solves + 1
            /\ vel' = solves + 1
            /\ \E d \in DtValues : dt' = d
       ELSE UNCHANGED <<solves, vel, dt>>
    /\ h0' = h1
    /\ pc' = "update"
    /\ UNCHANGED <<nb, err, time, step, integrates, vrms, checkedVel,
                   tcVars, rtVars, bbVars, h1, diffH, steps, dpVars>>

\* while steps<model_end_step: solver.solve(); dt on the first pass; h0 = h1
UP_Solve ==
    /\ nb = "UP" /\ pc = "while" /\ err = "none"
    /\ steps < up_model_end_step
    /\ solves' = solves + 1
    /\ vel' = solves + 1
    /\ IF dt < 0 THEN \E d \in DtValues : dt' = d ELSE dt' = dt
    /\ h0' = h1
    /\ pc' = "update"
    /\ UNCHANGED <<nb, err, time, step, integrates, vrms, checkedVel,
                   tcVars, rtVars, bbVars, h1, diffH, steps, dpVars>>

\* variant: the height gained since the start of the run, not since the last pass
up_DiffHTotal(a, b) == a - (6 * up_Ly) \div 10

\* diffH = h1-h0
up_DiffH(a, b) == a - b

\* advector.integrate(dt); msAdvector.integrate(dt); h1; diffH; steps += 1
UP_Advect ==
    /\ nb = "UP" /\ pc = "update" /\ err = "none"
    /\ integrates' = integrates + 1
    /\ \E d \in up_Deltas :
          /\ h1' = h1 + d
          /\ diffH' = up_DiffH(h1 + d, h0)
    /\ steps' = steps + 1
    /\ pc' = "while"
    /\ UNCHANGED <<nb, err, time, step, solves, vel, vrms, checkedVel,
                   tcVars, rtVars, bbVars, h0, dt, dpVars>>

UP_LoopExit ==
    /\ nb = "UP" /\ pc = "while" /\ err = "none"
    /\ ~(steps < up_model_end_step)
    /\ pc' = "check"
    /\ UNCHANGED <<nb, err, loopVars, tcVars, rtVars, bbVars, upVars, dpVars>>

\* (diffH*dimensionalise(1,u.meter)).magnitude, in 1e-3 m
up_Magnitude(d) == (d * KL_meters) \div 1000

\* np.fabs(magnitude-245.140) > 0.05*245.140, magnitude in 1e-3 m
up_OutsideTolerance(m) == Abs(m - 245140) * 100 > 5 * 245140

\* the test cell
UP_Check ==
    /\ nb = "UP" /\ pc = "check" /\ err = "none"
    /\ err' = IF up_OutsideTolerance(up_Magnitude(diffH))
              THEN "RuntimeError" ELSE "none"
    /\ pc' = "done"
    /\ UNCHANGED <<nb, loopVars, tcVars, rtVars, bbVars, upVars, dpVars>>

UP_Next ==
    \/ UP_Setup
    \/ UP_LoopInit
    \/ UP_Solve
    \/ UP_Advect
    \/ UP_LoopExit
    \/ UP_Check

(***************************************************************************)
(* Deployment: the GitHub actions of the README.  A push of a changed      *)
(* configuration triggers an update run; a run rebuilds the content of the *)
(* server from the configuration of its push.                              *)
(***************************************************************************)
\* the bound on the number of pushes
MaxPushes == 4

\* the configurations that can be pushed
Configs == {"env1", "env2", "env3"}

\* a changed configuration is pushed: the actions trigger an update run
Push(c) ==
    /\ pushes < MaxPushes
    /\ c # repoConfig
    /\ repoConfig' = c
    /\ pushes' = pushes + 1
    /\ runs' = Append(runs, c)
    /\ UNCHANGED <<nbVars, serverContent, hcVars>>

\* variant: a finished run cancels the runs queued behind it
dp_DropQueued(q) == <<>>

\* the runs left once the oldest run has finished
dp_AfterRun(q) == Tail(q)

\* the oldest update run rebuilds the content of the server
UpdateServer ==
    /\ runs # <<>>
    /\ serverContent' = Head(runs)
    /\ runs' = dp_AfterRun(runs)
    /\ UNCHANGED <<nbVars, repoConfig, pushes, hcVars>>

DeployNext ==
    \/ \E c \in Configs : Push(c)
    \/ UpdateServer

(***************************************************************************)
(* Health check: the actions also check to see if the server is alive and  *)
(* well.                                                                   *)
(***************************************************************************)
MaxChecks == 4

\* the server stops running
ServerStops ==
    /\ serverUp = TRUE
    /\ serverUp' = FALSE
    /\ UNCHANGED <<nbVars, repoConfig, pushes, runs, serverContent, checkLog>>

\* the server is started again
ServerRestarts ==
    /\ serverUp = FALSE
    /\ serverUp' = TRUE
    /\ UNCHANGED <<nbVars, repoConfig, pushes, runs, serverContent, checkLog>>

\* the server answers the request of a health check: only a running server
\* answers, and only while it is well
hc_Responds(up, well) == up /\ well

\* variant: the outcome of the request is ignored
hc_ReportSuccess(responded) == "success"

\* what a health check reports
hc_Report(responded) == IF responded THEN "success" ELSE "failure"

\* a health check run: one request to the server, and the report
HealthCheck ==
    /\ Len(checkLog) < MaxChecks
    /\ \E well \in BOOLEAN :
          LET responded == hc_Responds(serverUp, well)
          IN  checkLog' = Append(checkLog, [up        |-> serverUp,
                                            responded |-> responded,
                                            result    |-> hc_Report(responded)])
    /\ UNCHANGED <<nbVars, repoConfig, pushes, runs, serverContent, serverUp>>

HealthNext ==
    \/ ServerStops
    \/ ServerRestarts
    \/ HealthCheck

(***************************************************************************)
(* The kernel.                                                             *)
(***************************************************************************)
Init ==
    /\ nb = "none"
    /\ pc = "none"
    /\ err = "none"
    /\ time = 0
    /\ step = 0
    /\ solves = 0
    /\ integrates = 0
    /\ vel = 0
    /\ vrms = 0
    /\ checkedVel = -1
    /\ tcT = <<>>
    /\ tcTempBC = <<{}>>
    /\ tcVelBC = <<{}, {}>>
    /\ longtest = FALSE
    /\ envLongtest = FALSE
    /\ model_end_time = 0
    /\ res = 0
    /\ stokes_inner_tol = 0
    /\ stokesBC = <<{}, {}>>
    /\ demoChecked = FALSE
    /\ case = ""
    /\ LoadFromFile = FALSE
    /\ Ra = 0
    /\ eta0 = 0
    /\ loadedFile = ""
    /\ printed = ""
    /\ step_end = 0
    /\ nu = 0
    /\ nuLast = 0
    /\ mpiSize = 1
    /\ rankPc = <<>>
    /\ rankDefs = <<>>
    /\ rankErr = <<>>
    /\ h0 = 0
    /\ h1 = 0
    /\ diffH = 0
    /\ dt = 0
    /\ steps = 0
    /\ repoConfig = "template"
    /\ pushes = 0
    /\ runs = <<>>
    /\ serverContent = "template"
    /\ serverUp = TRUE
    /\ checkLog = <<>>

Next ==
    \/ \E n \in Notebooks : OpenNotebook(n)
    \/ TC_Next
    \/ RT_Next
    \/ BB_Next
    \/ UP_Next

Spec == Init /\ [][Next]_vars

\* every triggered update run is eventually carried out
DeploySpec == Init /\ [][DeployNext]_vars /\ WF_vars(UpdateServer)

HealthSpec == Init /\ [][HealthNext]_vars

(***************************************************************************)
(* Properties of the thermal convection notebook.                          *)
(***************************************************************************)
\* C4: the time-stepping loop of the thermal convection notebook performs
\* exactly steps_end iterations: step goes from 0 to steps_end one by one,
\* solve and integrate are each called steps_end times, and the velocity
\* field whose RMS the test cell examines is the one of the last solve.
C4_LoopRunsStepsEnd ==
    /\ [](nb = "TC" /\ pc \in {"check", "done"} =>
            /\ step = tc_steps_end
            /\ solves = tc_steps_end
            /\ integrates = tc_steps_end
            /\ vel = tc_steps_end)
    /\ [](nb = "TC" /\ pc = "done" => checkedVel = tc_steps_end)
    /\ [][nb = "TC" => step' \in {step, step + 1}]_vars

C4_Witness == nb = "TC" /\ pc = "done" /\ checkedVel = tc_steps_end /\ time > tc_steps_end

\* C9: before the first solve of the thermal convection notebook every node
\* temperature lies in [tempMin, tempMax], the bottom row of nodes holds
\* tempMax, the top row holds tempMin, and tempBC covers exactly those rows.
C9_InitialTemperature ==
    nb = "TC" /\ pc \in {"loopinit", "while"} /\ solves = 0 =>
        /\ \A n \in tc_Nodes : tcT[n] >= tc_tempMin /\ tcT[n] <= tc_tempMax
        /\ \A i \in 0 .. tc_nx : tcT[i] = tc_tempMax
        /\ \A i \in 0 .. tc_nx : tcT[i + tc_ny * (tc_nx + 1)] = tc_tempMin
        /\ tcTempBC = << { n \in tc_Nodes : NodeJ(n, tc_nx) \in {0, tc_ny} } >>

C9_Witness ==
    /\ nb = "TC" /\ pc = "while" /\ solves = 0
    /\ \E n \in tc_Nodes : tcT[n] \notin {tc_tempMin, tc_tempMax}
    /\ \E n \in tc_Nodes :
          tcT[n] # (tc_tempMax * (tc_ny - NodeJ(n, tc_nx))) \div tc_ny


(***************************************************************************)
(* Properties of the Rayleigh-Taylor notebook.                             *)
(***************************************************************************)
rt_DemoSettings ==
    model_end_time = 3 /\ res = 64 /\ stokes_inner_tol = 1000000

\* C2: once the test cell of the Rayleigh-Taylor notebook has run, the demo
\* RMS check was applied iff the demo settings are in effect, and the demo
\* settings are in effect iff longtest is False.
C2_DemoCheckIffDemoSettings ==
    nb = "RT" /\ pc = "done" =>
        /\ demoChecked <=> rt_DemoSettings
        /\ rt_DemoSettings <=> (longtest = FALSE)

\* C7: in the Rayleigh-Taylor notebook both velocity components are
\* constrained on every node of the top and bottom rows, and only the x
\* component on every node of the left and right columns that is no corner.
C7_NoSlipHorizontalFreeSlipVertical ==
    nb = "RT" /\ pc \notin {"params", "mesh"} =>
        /\ \A i \in 0 .. res : \A n \in {i, i + res * (res + 1)} :
              n \in stokesBC[1] /\ n \in stokesBC[2]
        /\ \A j \in 1 .. (res - 1) : \A n \in {j * (res + 1), res + j * (res + 1)} :
              n \in stokesBC[1] /\ n \notin stokesBC[2]

C7_Witness ==
    /\ nb = "RT" /\ pc = "done" /\ res = 128
    /\ 1 \in stokesBC[1] /\ (res + 1) \notin stokesBC[2]

(***************************************************************************)
(* Properties of the Blankenbach notebook.                                 *)
(***************************************************************************)
\* C1: with the initial conditions loaded from file, once the main loop of
\* the Blankenbach notebook has ended its body has run exactly once: there
\* has been one solver.solve() call.
C1_SingleStepWhenLoaded ==
    nb = "BB" /\ LoadFromFile = TRUE /\ pc \in {"check", "post"} => solves = 1

\* C3: in the Blankenbach notebook no rank of a parallel run stops in the
\* post analysis on a name that was not defined on that rank.
C3_ParallelFriendly ==
    nb = "BB" /\ pc = "post" => \A r \in Ranks : rankErr[r] # "NameError"

\* the Rayleigh number of each steady-state data file and of each message
bb_RaOfFile ==
    [f \in {"tempfield_inp_64_Ra1e4.h5", "tempfield_inp_64_Ra1e5.h5",
            "tempfield_inp_64_Ra1e6.h5"} |->
        IF f = "tempfield_inp_64_Ra1e4.h5" THEN 10000
        ELSE IF f = "tempfield_inp_64_Ra1e5.h5" THEN 100000 ELSE 1000000]

bb_RaOfMessage ==
    [m \in {"Loading 64*64 for Ra = 1e4", "Loading 64*64 for Ra = 1e5",
            "Loading 64*64 for Ra = 1e6"} |->
        IF m = "Loading 64*64 for Ra = 1e4" THEN 10000
        ELSE IF m = "Loading 64*64 for Ra = 1e5" THEN 100000 ELSE 1000000]

\* C8: in the Blankenbach notebook the Rayleigh number of the density
\* function, that of the loaded data file and that of the printed message
\* agree: 1e4 for case "a", 1e5 for "b", 1e6 otherwise, with eta0 1e23, 1e22
\* and 1e21.
C8_RayleighNumberConsistent ==
    nb = "BB" /\ pc \notin {"params", "load"} =>
        /\ Ra = (IF case = "a" THEN 10000 ELSE IF case = "b" THEN 100000 ELSE 1000000)
        /\ eta0 = (IF case = "a" THEN 23 ELSE IF case = "b" THEN 22 ELSE 21)
        /\ LoadFromFile = TRUE =>
              /\ bb_RaOfFile[loadedFile] = Ra
              /\ bb_RaOfMessage[printed] = Ra

C8_Witness ==
    /\ nb = "BB" /\ pc = "post" /\ LoadFromFile = TRUE
    /\ case = "c" /\ Ra = 1000000 /\ loadedFile = "tempfield_inp_64_Ra1e6.h5"

(***************************************************************************)
(* Properties of the uplift notebook.                                      *)
(***************************************************************************)
\* C5: the test cell of the uplift notebook raises RuntimeError exactly when
\* the rise h1 - h0 of the tracer over the last pass of the loop, in metres
\* (here 1e-3 m), is further than 5% of 245.140 from 245.140.
C5_TracerHeightCheck ==
    nb = "UP" /\ pc = "done" =>
        /\ err \in {"none", "RuntimeError"}
        /\ err = "RuntimeError" <=> Abs((h1 - h0) * 100 - 245140) > 12257

C5_Witness ==
    /\ nb = "UP" /\ pc = "done" /\ err = "RuntimeError"
    /\ h1 - h0 = 2574 /\ h0 = 360000 + 2451 + 2329

(***************************************************************************)
(* Properties of the deployment.                                           *)
(***************************************************************************)
\* C10: whenever a changed configuration has been pushed, the content of the
\* server is eventually the one built from that configuration.
C10_PushEventuallyDeployed ==
    \A c \in Configs :
        (\E i \in 1 .. Len(runs) : runs[i] = c) ~> (serverContent = c)

C10_Witness ==
    /\ pushes = MaxPushes /\ runs = <<>>
    /\ serverContent = repoConfig /\ serverContent \in Configs

(***************************************************************************)
(* Properties of the health check.                                         *)
(***************************************************************************)
\* C11: every health check made while the server was down reported failure,
\* and every health check that reported success got a response from the
\* server.
C11_HealthCheckReportsServerState ==
    \A i \in 1 .. Len(checkLog) :
        /\ checkLog[i].up = FALSE => checkLog[i].result = "failure"
        /\ checkLog[i].result = "success" => checkLog[i].responded = TRUE

C11_Witness ==
    \E i, j \in 1 .. Len(checkLog) :
        /\ checkLog[i].up = FALSE /\ checkLog[i].result = "failure"
        /\ checkLog[j].up = TRUE /\ checkLog[j].result = "success"

(***************************************************************************)
(* Properties of the time-stepping loops.                                  *)
(***************************************************************************)
\* C12: in the time-stepping loop of every notebook the first solve comes
\* before the first advection step and exactly one solve lies between two
\* consecutive advection steps: the number of solves is the number of
\* advection steps or one more, and every advection step is made right
\* after a solve that no advection step has used, with the velocity field
\* of that solve.
C12_OneSolvePerAdvection ==
    /\ [](integrates <= solves /\ solves <= integrates + 1)
    /\ [][integrates' # integrates =>
            /\ integrates' = integrates + 1
            /\ solves = integrates + 1
            /\ solves' = solves
            /\ vel = solves /\ vel' = vel]_vars

C12_Witness ==
    /\ nb = "BB" /\ pc = "check"
    /\ integrates = 2 /\ solves = 3 /\ vel = 3
====
